---------------------------- MODULE Spec2Model ----------------------------
(***************************************************************************)
(* PCM -> MIDI sonifier (pythonversion.py): the VLQ codec, the MIDI event  *)
(* encoder, the writer MidiWriterRaw and the encoder gen_midi_from_pcm.    *)
(* Bytes are integers 0..255, a byte list is a sequence of them.  Python   *)
(* lists are 0-based, TLA+ sequences 1-based: track k of the code is       *)
(* tracks[k + 1] here.                                                     *)
(***************************************************************************)
EXTENDS Integers, Sequences, FiniteSets, TLC

VARIABLES
    \* ---- MidiWriterRaw
    ppqn,        \* self.ppqn
    tracks,      \* self.tracks: a sequence of byte lists
    file,        \* what the last save() left in the file, and how it ended
    call,        \* the last writer method called, with its arguments
    n_calls,     \* number of writer calls made (bounded by MaxCalls)
    only_push,   \* TRUE while push_event is the only call that made tracks
    max_pushed,  \* highest track index given to push_event so far, or -1
    \* ---- gen_midi_from_pcm
    src,         \* the channel buffers (1-based sequence of sequences)
    fs,          \* the sample rate
    pc,          \* position of gen_midi_from_pcm
    ch_i,        \* index of the channel being walked (0-based, as in the code)
    i,           \* index of the sample being read (0-based, as in the code)
    deltatimes,  \* the four per-lane accumulators (lane u is deltatimes[u + 1])
    note_count,  \* the running note counter
    \* ---- VLQ codec calls
    vlq_pc,      \* position of the codec call sequence
    vlq_in,      \* the arguments the call sequence started from
    bytes_list,  \* the list get_variable_length_number pops from
    number,      \* the value decoded
    output       \* the list to_variable_length_bytes returned

wvars == <<ppqn, tracks, file, call, n_calls, only_push, max_pushed>>
evars == <<src, fs, pc, ch_i, i, deltatimes, note_count>>
qvars == <<vlq_pc, vlq_in, bytes_list, number, output>>
vars == <<wvars, evars, qvars>>

---------------------------------------------------------------------------
(* Bounds of the model.                                                    *)

\* longest byte list handed to get_variable_length_number
MaxVlqLen == 3
\* to_variable_length_bytes is tried on 0..MaxVlqNum and on the 7-bit borders
MaxVlqNum == 130
\* number of writer method calls in one run of the writer
MaxCalls == 3
\* highest small track index handed to push_event
MaxTrackIdx == 2
\* the samples at positions 0..MaxFire-1 and the last one are free, the rest 0
MaxFire == 2
\* at most this many non-zero samples in one PCM input
MaxNotes == 2
\* short inputs have 0..MaxShort samples
MaxShort == 2
\* length of the long mono input (a delta-time that needs two VLQ bytes)
LongLen == 130

---------------------------------------------------------------------------
(* Helpers for Python's list and integer operations.                       *)

RECURSIVE Reverse(_)
Reverse(s) == IF s = <<>> THEN <<>> ELSE Append(Reverse(Tail(s)), Head(s))

RECURSIVE SeqsOver(_, _)
\* all sequences over S of length exactly n
SeqsOver(S, n) ==
    IF n = 0 THEN {<<>>}
    ELSE {Append(s, x) : s \in SeqsOver(S, n - 1), x \in S}

Max(a, b) == IF a >= b THEN a ELSE b
Min(a, b) == IF a <= b THEN a ELSE b

---------------------------------------------------------------------------
(* VLQ codec.                                                              *)

RECURSIVE vlq_read(_, _)
\* the loop of get_variable_length_number: n <<= 7; x = pop(0);
\* n |= x & 0x7F; stop when x & 0x80 == 0.  pop(0) on an empty list raises.
vlq_read(n, bl) ==
    IF bl = <<>>
    THEN [raised |-> TRUE, n |-> n, rest |-> <<>>]
    ELSE LET x == Head(bl)
             n2 == (n * 128) + (x % 128)
         IN  IF (x \div 128) % 2 = 0
             THEN [raised |-> FALSE, n |-> n2, rest |-> Tail(bl)]
             ELSE vlq_read(n2, Tail(bl))

get_variable_length_number(bl) == vlq_read(0, bl)

RECURSIVE vlq_write(_, _, _)
\* the loop of to_variable_length_bytes, least significant group first
vlq_write(working_number, first_pass, out) ==
    IF working_number > 0 \/ first_pass
    THEN LET tmp == working_number % 128
             tmp2 == IF first_pass THEN tmp ELSE tmp + 128
         IN  vlq_write(working_number \div 128, FALSE, Append(out, tmp2))
    ELSE out

\* mutant: the continuation bit is never set
to_variable_length_bytes_nocont(n) ==
    Reverse([k \in 1..Len(vlq_write(n, TRUE, <<>>)) |->
                 vlq_write(n, TRUE, <<>>)[k] % 128])

\* mutant: output.reverse() forgotten
to_variable_length_bytes_norev(n) == vlq_write(n, TRUE, <<>>)

to_variable_length_bytes(n) == Reverse(vlq_write(n, TRUE, <<>>))

\* ---- the codec's call sequences
VlqBytes == {0, 1, 127, 128, 129, 255}
VlqTails == {<<>>, <<5>>, <<129, 0>>}
VlqNumbers == (0..MaxVlqNum) \cup
    {16383, 16384, 2097151, 2097152, 268435455}
VlqByteLists == UNION {SeqsOver(VlqBytes, n) : n \in 0..MaxVlqLen}

VlqIdle ==
    /\ file = "none" /\ call = [op |-> "none"] /\ n_calls = 0
    /\ only_push = TRUE /\ max_pushed = -1
    /\ ppqn = 480 /\ tracks = <<>>
EncIdle ==
    /\ src = <<>> /\ fs = 0 /\ pc = "idle" /\ ch_i = 0 /\ i = 0
    /\ deltatimes = <<0, 0, 0, 0>> /\ note_count = 0

InitVLQ ==
    /\ VlqIdle /\ EncIdle
    /\ vlq_pc = "start"
    /\ \/ \E b \in VlqByteLists :
              /\ vlq_in = [kind |-> "bytes", bytes |-> b]
              /\ bytes_list = b
       \/ \E n \in VlqNumbers, t \in VlqTails :
              /\ vlq_in = [kind |-> "number", n |-> n, tail |-> t]
              /\ bytes_list = <<>>
    /\ number = -1
    /\ output = <<>>

\* get_variable_length_number(bytes_list) on the bytes given
DecodeBytes ==
    /\ vlq_pc = "start" /\ vlq_in.kind = "bytes"
    /\ LET r == get_variable_length_number(bytes_list)
       IN  /\ bytes_list' = r.rest
           /\ IF r.raised
              THEN /\ vlq_pc' = "IndexError" /\ UNCHANGED number
              ELSE /\ vlq_pc' = "decoded" /\ number' = r.n
    /\ UNCHANGED <<vlq_in, output, wvars, evars>>

\* to_variable_length_bytes of the number just decoded
ReEncode ==
    /\ vlq_pc = "decoded"
    /\ output' = to_variable_length_bytes(number)
    /\ vlq_pc' = "reencoded"
    /\ UNCHANGED <<vlq_in, bytes_list, number, wvars, evars>>

\* to_variable_length_bytes(n); the result is put in front of other bytes
EncodeNumber ==
    /\ vlq_pc = "start" /\ vlq_in.kind = "number"
    /\ output' = to_variable_length_bytes(vlq_in.n)
    /\ bytes_list' = output' \o vlq_in.tail
    /\ vlq_pc' = "encoded"
    /\ UNCHANGED <<vlq_in, number, wvars, evars>>

\* get_variable_length_number on the list that starts with the encoding
DecodeBack ==
    /\ vlq_pc = "encoded"
    /\ LET r == get_variable_length_number(bytes_list)
       IN  /\ bytes_list' = r.rest
           /\ IF r.raised
              THEN /\ vlq_pc' = "IndexError" /\ UNCHANGED number
              ELSE /\ vlq_pc' = "decoded_back" /\ number' = r.n
    /\ UNCHANGED <<vlq_in, output, wvars, evars>>

NextVLQ == DecodeBytes \/ ReEncode \/ EncodeNumber \/ DecodeBack

SpecVLQ == InitVLQ /\ [][NextVLQ]_vars


---------------------------------------------------------------------------
(* Claims about the VLQ codec (checked under SpecVLQ).                     *)

\* zero or more bytes with the high bit set, then one byte with it clear
IsCompleteVLQ(b) ==
    /\ Len(b) >= 1
    /\ \A k \in 1..(Len(b) - 1) : b[k] >= 128
    /\ b[Len(b)] < 128

\* C4 as stated: for every complete VLQ byte sequence, also one that starts
\* with 0x80, to_variable_length_bytes(get_variable_length_number(bytes))
\* equals the bytes.
C4_RoundTripAnyVLQ ==
    (vlq_pc = "reencoded" /\ IsCompleteVLQ(vlq_in.bytes))
        => output = vlq_in.bytes

\* C4 amended: the round trip holds for every complete VLQ byte sequence
\* that is a single byte or does not start with 0x80.
C4_RoundTripMinimalVLQ ==
    (/\ vlq_pc = "reencoded"
     /\ IsCompleteVLQ(vlq_in.bytes)
     /\ (Len(vlq_in.bytes) = 1 \/ vlq_in.bytes[1] # 128))
        => output = vlq_in.bytes

C4_Witness ==
    /\ vlq_pc = "reencoded"
    /\ vlq_in.bytes = <<129, 255, 0>>
    /\ output = <<129, 255, 0>>

\* C5: for the numbers 0 <= n < 2^28 tried, decoding the encoding of n gives
\* n and consumes exactly the encoding (the bytes after it are left), every
\* byte of the encoding but the last has the high bit set and the last has
\* it clear, 0 encodes as the single byte 0, and an encoding of more than one
\* byte does not start with 0x80.
C5_ValueRoundTrip ==
    /\ vlq_pc \in {"encoded", "decoded_back"} =>
          /\ IsCompleteVLQ(output)
          /\ (vlq_in.n = 0 => output = <<0>>)
          /\ (Len(output) > 1 => output[1] # 128)
    /\ vlq_pc = "encoded" => bytes_list = output \o vlq_in.tail
    /\ vlq_in.kind = "number" => vlq_pc # "IndexError"
    /\ vlq_pc = "decoded_back" =>
          /\ number = vlq_in.n
          /\ bytes_list = vlq_in.tail

C5_Witness ==
    /\ vlq_pc = "decoded_back"
    /\ vlq_in.n = 268435455
    /\ vlq_in.tail = <<129, 0>>
    /\ output = <<255, 255, 255, 127>>
    /\ number = 268435455
    /\ bytes_list = <<129, 0>>

---------------------------------------------------------------------------
(* MIDI events.                                                            *)

SetTempo(tempo) == [event_type |-> "SetTempo", params |-> <<tempo>>]
ProgramChange(channel, program) ==
    [event_type |-> "ProgramChange", params |-> <<channel, program>>]
ControlChange(channel, cc, value) ==
    [event_type |-> "ControlChange", params |-> <<channel, cc, value>>]
NoteOn(channel, note, velocity) ==
    [event_type |-> "NoteOn", params |-> <<channel, note, velocity>>]
NoteOff(channel, note, velocity) ==
    [event_type |-> "NoteOff", params |-> <<channel, note, velocity>>]
EndOfTrack == [event_type |-> "EndOfTrack", params |-> <<>>]

\* MIDIEvent.as_bytes; x & 0x7F is x % 128 and 0x90 | (c & 0x0F) is
\* 144 + c % 16 for the non-negative fields used
as_bytes(e) ==
    LET p == e.params IN
    CASE e.event_type = "SetTempo" ->
            <<255, 81, 3, (p[1] \div 65536) % 256, (p[1] \div 256) % 256,
              p[1] % 256>>
      [] e.event_type = "ProgramChange" -> <<192 + (p[1] % 16), p[2] % 128>>
      [] e.event_type = "ControlChange" ->
            <<176 + (p[1] % 16), p[2] % 128, p[3] % 128>>
      [] e.event_type = "NoteOn" ->
            <<144 + (p[1] % 16), p[2] % 128, p[3] % 128>>
      [] e.event_type = "NoteOff" ->
            <<128 + (p[1] % 16), p[2] % 128, p[3] % 128>>
      [] e.event_type = "EndOfTrack" -> <<255, 47, 0>>
      [] OTHER -> <<>>

---------------------------------------------------------------------------
(* MidiWriterRaw.                                                          *)

\* the tracks after add_track()
AddTrack(tr) == Append(tr, <<>>)

\* mutant: the target track is not created when it is the next one
\* (track >= len(self.tracks) + 1 in place of track + 1 >= len(self.tracks))
PushEventLateExtend(tr, track, wait, event) ==
    LET ext == IF track >= Len(tr) + 1
               THEN tr \o [k \in 1..(track + 1 - Len(tr)) |-> <<>>]
               ELSE tr
        k1 == Min(track + 1, Len(ext))
    IN  IF k1 = 0 THEN ext
        ELSE [ext EXCEPT ![k1] =
                 @ \o to_variable_length_bytes(wait) \o as_bytes(event)]

\* the tracks after push_event(track, wait, event): range(len, track + 1)
\* is empty when track + 1 <= len
PushEvent(tr, track, wait, event) ==
    LET ext == IF track + 1 >= Len(tr)
               THEN tr \o [k \in 1..Max(0, track + 1 - Len(tr)) |-> <<>>]
               ELSE tr
    IN  [ext EXCEPT ![track + 1] =
             @ \o to_variable_length_bytes(wait) \o as_bytes(event)]

MThd == <<77, 84, 104, 100>>
MTrk == <<77, 84, 114, 107>>

\* one track chunk as save() builds it
TrackChunk(track) ==
    LET length == Len(track)
    IN  MTrk \o <<(length \div 16777216) % 256, (length \div 65536) % 256,
                  (length \div 256) % 256, length % 256>> \o track

RECURSIVE TrackChunks(_)
TrackChunks(trs) ==
    IF trs = <<>> THEN <<>>
    ELSE TrackChunk(Head(trs)) \o TrackChunks(Tail(trs))

\* save(): what is in the file afterwards.  bytes([0, len(self.tracks)])
\* raises ValueError when len(self.tracks) > 255; the file is then open and
\* empty, nothing having been written.
Save(pq, trs) ==
    IF Len(trs) > 255
    THEN [status |-> "ValueError", data |-> <<>>]
    ELSE [status |-> "ok",
          data |-> MThd \o <<0, 0, 0, 6>> \o <<0, 1>> \o <<0, Len(trs)>>
                   \o <<(pq \div 256) % 256, pq % 256>>
                   \o TrackChunks(trs)]

\* ---- the writer driven by an arbitrary caller
PushTracks == (0..MaxTrackIdx) \cup {255}
PushWaits == {0, 200}
PushEvents == {NoteOn(5, 200, 130), EndOfTrack}
PpqnValues == {100, 441}

WriterIdle ==
    /\ vlq_pc = "idle" /\ vlq_in = [kind |-> "none"] /\ bytes_list = <<>>
    /\ number = -1 /\ output = <<>>

InitWriter ==
    /\ ppqn = 480
    /\ tracks = <<>>
    /\ file = "none"
    /\ call = [op |-> "none"]
    /\ n_calls = 0
    /\ only_push = TRUE
    /\ max_pushed = -1
    /\ EncIdle /\ WriterIdle

set_ppqn(v) ==
    /\ n_calls < MaxCalls
    /\ ppqn' = v
    /\ call' = [op |-> "set_ppqn", ppqn |-> v]
    /\ n_calls' = n_calls + 1
    /\ UNCHANGED <<tracks, file, only_push, max_pushed, evars, qvars>>

add_track ==
    /\ n_calls < MaxCalls
    /\ tracks' = AddTrack(tracks)
    /\ call' = [op |-> "add_track", ret |-> Len(tracks') - 1]
    /\ n_calls' = n_calls + 1
    /\ only_push' = FALSE
    /\ UNCHANGED <<ppqn, file, max_pushed, evars, qvars>>

push_event(track, wait, event) ==
    /\ n_calls < MaxCalls
    /\ tracks' = PushEvent(tracks, track, wait, event)
    /\ call' = [op |-> "push_event", track |-> track, wait |-> wait,
                event |-> event]
    /\ n_calls' = n_calls + 1
    /\ max_pushed' = Max(max_pushed, track)
    /\ UNCHANGED <<ppqn, file, only_push, evars, qvars>>

save ==
    /\ n_calls < MaxCalls
    /\ file' = Save(ppqn, tracks)
    /\ call' = [op |-> "save"]
    /\ n_calls' = n_calls + 1
    /\ UNCHANGED <<ppqn, tracks, only_push, max_pushed, evars, qvars>>

NextWriter ==
    \/ \E v \in PpqnValues : set_ppqn(v)
    \/ add_track
    \/ \E k \in PushTracks, d \in PushWaits, e \in PushEvents :
           push_event(k, d, e)
    \/ save

SpecWriter == InitWriter /\ [][NextWriter]_vars

---------------------------------------------------------------------------
(* Claims about the writer (checked under SpecWriter).                     *)

U16BE(n) == <<(n \div 256) % 256, n % 256>>
U32BE(n) == <<(n \div 16777216) % 256, (n \div 65536) % 256,
              (n \div 256) % 256, n % 256>>

RECURSIVE Flatten(_)
Flatten(ss) == IF ss = <<>> THEN <<>> ELSE Head(ss) \o Flatten(Tail(ss))

\* the file C6 describes for a writer with resolution pq and tracks trs
SmfFile(pq, trs) ==
    <<77, 84, 104, 100, 0, 0, 0, 6, 0, 1>> \o U16BE(Len(trs)) \o U16BE(pq)
    \o Flatten([k \in 1..Len(trs) |->
                   <<77, 84, 114, 107>> \o U32BE(Len(trs[k])) \o trs[k]])

\* C6 as stated: for any number of tracks from 0 to 65535, save succeeds and
\* the file is the 14-byte header with the track count and ppqn as big-endian
\* 16-bit values, followed by one MTrk chunk per track, in order, each with
\* the exact length of its body.
C6_SaveFraming ==
    call.op = "save" =>
        /\ file.status = "ok"
        /\ file.data = SmfFile(ppqn, tracks)

\* C8: a push_event(k, d, e) step leaves max(previous count, k + 1) tracks,
\* the tracks it creates other than k are empty, the other tracks and ppqn
\* are unchanged, and track k is its previous content followed by VLQ(d) and
\* the bytes of e; and while only push_event has been called the track count
\* is the highest pushed index + 1.
C8_PushEventFrame ==
    /\ [][(call'.op = "push_event" /\ n_calls' = n_calls + 1) =>
            LET k == call'.track
                old(j) == IF j <= Len(tracks) THEN tracks[j] ELSE <<>>
            IN  /\ Len(tracks') = Max(Len(tracks), k + 1)
                /\ \A j \in 1..Len(tracks') :
                       j # k + 1 => tracks'[j] = old(j)
                /\ tracks'[k + 1] =
                       old(k + 1) \o to_variable_length_bytes(call'.wait)
                                  \o as_bytes(call'.event)
                /\ ppqn' = ppqn]_vars
    /\ [](only_push => Len(tracks) = max_pushed + 1)

\* a push two past the end of a writer that already holds a non-empty track
C8_Witness ==
    /\ call.op = "push_event"
    /\ call.track = 2
    /\ Len(tracks) = 3
    /\ tracks[1] = <<0, 255, 47, 0>>
    /\ tracks[2] = <<>>
    /\ tracks[3] = <<129, 72, 149, 72, 2>>
    /\ only_push

---------------------------------------------------------------------------
(* gen_midi_from_pcm.                                                      *)

\* K = 127.0 * 127.0 / 32768.0 is VelKNum / (4 * VelKDenQ)
VelKNum == 16129
VelKDenQ == 8192
\* the progress bar has 20 cells: i % (total_samples // 20)
ProgressCells == 20
\* 60000000 / 6000
Tempo == 10000
\* the note every sample is played on
NoteNumber == 60

Abs(x) == IF x >= 0 THEN x ELSE -x

RECURSIVE RoundSqrtK(_, _)
\* int(math.floor(math.sqrt(a * K) + 0.5)) for an integer a >= 0: the largest
\* v with v - 1/2 <= sqrt(a * K), that is (2v - 1)^2 * VelKDenQ <= a * VelKNum.
\* (a * K and the square root of every tie are exact in binary floating
\* point: K has a power of two as denominator.)
RoundSqrtK(a, v) ==
    IF (2 * v + 1) * (2 * v + 1) * VelKDenQ <= a * VelKNum
    THEN RoundSqrtK(a, v + 1)
    ELSE v

\* amp2vel: the pair (velocity, lane)
amp2vel(point, is_right_channel) ==
    <<RoundSqrtK(Abs(point), 0),
      (IF point >= 0 THEN 0 ELSE 1) + (IF is_right_channel THEN 2 ELSE 0)>>

\* mutant: lanes 2-3 get their ProgramChange whatever the channel count
SetupTracksAlwaysFour(tr, is_stereo) ==
    LET t1 == PushEvent(tr, 0, 0, ProgramChange(0, 0))
        t2 == PushEvent(t1, 1, 0, ProgramChange(1, 74))
        t3 == PushEvent(t2, 2, 0, ProgramChange(2, 0))
        t4 == PushEvent(t3, 3, 0, ProgramChange(3, 74))
        t5 == PushEvent(t4, 0, 0, ControlChange(0, 10, 1))
        t6 == PushEvent(t5, 1, 0, ControlChange(1, 10, 1))
        t7 == PushEvent(t6, 2, 0, ControlChange(2, 10, 127))
    IN  PushEvent(t7, 3, 0, ControlChange(3, 10, 127))

\* the pushes of lines 145-153
SetupTracks(tr, is_stereo) ==
    LET t1 == PushEvent(tr, 0, 0, ProgramChange(0, 0))
        t2 == PushEvent(t1, 1, 0, ProgramChange(1, 74))
        t3 == IF is_stereo THEN PushEvent(t2, 2, 0, ProgramChange(2, 0))
              ELSE t2
        t4 == IF is_stereo THEN PushEvent(t3, 3, 0, ProgramChange(3, 74))
              ELSE t3
        t5 == PushEvent(t4, 0, 0, ControlChange(0, 10, 1))
        t6 == PushEvent(t5, 1, 0, ControlChange(1, 10, 1))
        t7 == PushEvent(t6, 2, 0, ControlChange(2, 10, 127))
    IN  PushEvent(t7, 3, 0, ControlChange(3, 10, 127))

\* the two pushes of a sounding sample (lines 175-176)
PushNote(tr, u, d1, d2, vel) ==
    PushEvent(PushEvent(tr, u, d1, NoteOn(u, NoteNumber, vel)),
              u, d2, NoteOff(u, NoteNumber, vel))

\* mutant: the lane that fired is not reset
StepDeltatimesNoReset(dt, vel, u) == [d \in 1..4 |-> dt[d] + 1]

\* lines 177-180: every accumulator advances, the firing lane's restarts
StepDeltatimes(dt, vel, u) ==
    [d \in 1..4 |-> IF vel # 0 /\ d = u + 1 THEN 0 ELSE dt[d] + 1]

\* mutant: range(3)
EndTracksThree(tr) ==
    PushEvent(PushEvent(PushEvent(tr, 0, 0, EndOfTrack), 1, 0, EndOfTrack),
              2, 0, EndOfTrack)

\* lines 184-185
EndTracks(tr) ==
    PushEvent(PushEvent(PushEvent(PushEvent(tr, 0, 0, EndOfTrack),
                                  1, 0, EndOfTrack),
                        2, 0, EndOfTrack),
              3, 0, EndOfTrack)

\* ---- the inputs
Samples == {0, 1000, -1000, 33286}
SampleRates == {100, 44100}

FreePos(n) == {p \in 1..n : p <= MaxFire \/ p = n}
ChannelBufs(n) ==
    {[p \in 1..n |-> IF p \in FreePos(n) THEN f[p] ELSE 0] :
        f \in [FreePos(n) -> Samples]}
NonZero(buf) == Cardinality({p \in 1..Len(buf) : buf[p] # 0})
\* the buffers of length n with exactly k non-zero samples
BufsWith(n, k) == {b \in ChannelBufs(n) : NonZero(b) = k}

MonoLens == (0..MaxShort) \cup {ProgressCells - 1, ProgressCells, LongLen}
StereoLens == (0..MaxShort) \cup {ProgressCells - 1, ProgressCells}

MonoInputs ==
    UNION {{<<a>> : a \in BufsWith(n, k)} : n \in MonoLens, k \in 0..MaxNotes}
StereoInputs ==
    UNION {{<<a, b>> : a \in BufsWith(n, k[1]), b \in BufsWith(n, k[2])} :
              n \in StereoLens,
              k \in {c \in (0..MaxNotes) \X (0..MaxNotes) :
                         c[1] + c[2] <= MaxNotes}}
\* channel counts the encoder rejects
BadInputs == {<<>>, << <<0>>, <<0>>, <<0>> >>}

PcmInputs == MonoInputs \cup StereoInputs \cup BadInputs

InitEnc ==
    /\ ppqn = 480
    /\ tracks = <<>>
    /\ file = "none"
    /\ call = [op |-> "none"]
    /\ n_calls = 0
    /\ only_push = TRUE
    /\ max_pushed = -1
    /\ WriterIdle
    /\ src \in PcmInputs
    /\ fs \in SampleRates
    /\ pc = "start"
    /\ ch_i = 0
    /\ i = 0
    /\ deltatimes = <<0, 0, 0, 0>>
    /\ note_count = 0

\* lines 136-163 for one or two channels
GenStart ==
    /\ pc = "start"
    /\ Len(src) \in {1, 2}
    /\ ppqn' = fs \div 100
    /\ tracks' = SetupTracks(PushEvent(tracks, 0, 0, SetTempo(Tempo)),
                             Len(src) = 2)
    /\ note_count' = 0
    /\ ch_i' = 0
    /\ i' = 0
    /\ deltatimes' = <<0, 0, 0, 0>>
    /\ pc' = "loop"
    /\ UNCHANGED <<file, call, n_calls, only_push, max_pushed, src, fs, qvars>>

\* lines 136-144 for any other channel count
GenNotMonoOrStereo ==
    /\ pc = "start"
    /\ Len(src) \notin {1, 2}
    /\ ppqn' = fs \div 100
    /\ tracks' = PushEvent(tracks, 0, 0, SetTempo(Tempo))
    /\ pc' = "Exception"
    /\ UNCHANGED <<file, call, n_calls, only_push, max_pushed, src, fs,
                   ch_i, i, deltatimes, note_count, qvars>>

\* one pass of the inner loop body, lines 170-183
SampleStep ==
    /\ pc = "loop"
    /\ ch_i < Len(src)
    /\ i < Len(src[1])
    /\ LET total_samples == Len(src[1])
           vu == amp2vel(src[ch_i + 1][i + 1], ch_i = 1)
           vel == vu[1]
           u == vu[2]
       IN  /\ IF vel # 0
              THEN /\ note_count' = note_count + 1
                   /\ tracks' = PushNote(tracks, u, deltatimes[u + 1], 1, vel)
              ELSE UNCHANGED <<note_count, tracks>>
           /\ IF total_samples \div ProgressCells = 0
              THEN \* i % 0 raises ZeroDivisionError
                   /\ deltatimes' = StepDeltatimes(deltatimes, vel, u)
                   /\ pc' = "ZeroDivisionError"
                   /\ UNCHANGED <<ch_i, i>>
              ELSE IF i + 1 < total_samples
              THEN /\ deltatimes' = StepDeltatimes(deltatimes, vel, u)
                   /\ i' = i + 1
                   /\ UNCHANGED <<ch_i, pc>>
              ELSE IF ch_i + 1 < Len(src)
              THEN \* the next channel starts with deltatimes = [0, 0, 0, 0]
                   /\ deltatimes' = <<0, 0, 0, 0>>
                   /\ ch_i' = ch_i + 1
                   /\ i' = 0
                   /\ UNCHANGED pc
              ELSE /\ deltatimes' = StepDeltatimes(deltatimes, vel, u)
                   /\ ch_i' = ch_i + 1
                   /\ i' = 0
                   /\ UNCHANGED pc
    /\ UNCHANGED <<ppqn, file, call, n_calls, only_push, max_pushed, src, fs,
                   qvars>>

\* lines 184-187, once the loops are over
GenReturn ==
    /\ pc = "loop"
    /\ (ch_i >= Len(src) \/ Len(src[1]) = 0)
    /\ tracks' = EndTracks(tracks)
    /\ pc' = "returned"
    /\ UNCHANGED <<ppqn, file, call, n_calls, only_push, max_pushed, src, fs,
                   ch_i, i, deltatimes, note_count, qvars>>

NextEnc == GenStart \/ GenNotMonoOrStereo \/ SampleStep \/ GenReturn

SpecEnc == InitEnc /\ [][NextEnc]_vars

---------------------------------------------------------------------------
(* Claims about gen_midi_from_pcm (checked under SpecEnc).                 *)

\* number of bytes of the event that starts bl, 0 when there is none
EventSize(bl) ==
    IF bl = <<>> THEN 0
    ELSE LET st == bl[1] IN
         IF st = 255 THEN (IF Len(bl) >= 3 THEN 3 + bl[3] ELSE 0)
         ELSE IF st \div 16 \in {8, 9, 11} THEN 3
         ELSE IF st \div 16 = 12 THEN 2
         ELSE 0

RECURSIVE ParseFrom(_, _, _)
\* a track read as a MIDI reader reads it: a VLQ delta-time, then one event;
\* t is the absolute time so far
ParseFrom(bl, t, acc) ==
    IF bl = <<>> THEN [ok |-> TRUE, events |-> acc]
    ELSE LET r == get_variable_length_number(bl)
             size == EventSize(r.rest)
         IN  IF r.raised \/ size = 0 \/ Len(r.rest) < size
             THEN [ok |-> FALSE, events |-> acc]
             ELSE ParseFrom(SubSeq(r.rest, size + 1, Len(r.rest)), t + r.n,
                            Append(acc, [delta |-> r.n, time |-> t + r.n,
                                         bytes |-> SubSeq(r.rest, 1, size)]))

ParseTrack(bl) == ParseFrom(bl, 0, <<>>)

IsNote(ev) == ev.bytes[1] \div 16 \in {8, 9}
IsNoteOn(ev) == ev.bytes[1] \div 16 = 9
EotBytes == <<255, 47, 0>>

SelectEvents(evs, Test(_)) == SelectSeq(evs, Test)

SeqSum(f, n) ==
    LET S[k \in 0..n] == IF k = 0 THEN 0 ELSE S[k - 1] + f[k] IN S[n]

Returned == pc = "returned"
SecondChannelSilent ==
    Len(src) = 1 \/ (Len(src) = 2 /\ \A p \in 1..Len(src[2]) : src[2][p] = 0)

\* C1 as stated: on every input of 1 or 2 channels gen_midi_from_pcm runs to
\* its return and raises nothing on the way.
C1_RunsToCompletion ==
    Len(src) \in {1, 2} => pc \in {"start", "loop", "returned"}

C3_TwoSampleExample ==
    (src = << <<1000, -1000>> >> /\ fs = 100 /\ pc \notin {"start", "loop"}) =>
        /\ pc = "returned"
        /\ note_count = 2
        /\ LET n0 == SelectEvents(ParseTrack(tracks[1]).events, IsNote)
               n1 == SelectEvents(ParseTrack(tracks[2]).events, IsNote)
           IN  /\ Len(n0) = 2
               /\ n0[1].delta = 0 /\ n0[1].bytes = <<144, 60, 22>>
               /\ n0[2].delta = 1 /\ n0[2].bytes = <<128, 60, 22>>
               /\ Len(n1) >= 1
               /\ n1[1].delta = 2 /\ n1[1].bytes = <<145, 60, 22>>

\* the NoteOn events of all tracks whose velocity byte is not 0
SoundingNoteOns(trs) ==
    SeqSum([k \in 1..Len(trs) |->
               Len(SelectEvents(ParseTrack(trs[k]).events,
                                LAMBDA ev : IsNoteOn(ev) /\ ev.bytes[3] # 0))],
           Len(trs))

\* C7 as stated: the value returned is the number of NoteOn events written
\* whose velocity byte is not 0.
C7_CountIsSoundingNoteOns ==
    Returned => note_count = SoundingNoteOns(tracks)

\* C9: when gen_midi_from_pcm returns there are exactly 4 tracks, each reads
\* as (VLQ delta-time, event) pairs with data bytes below 128, the last event
\* is EndOfTrack at delta-time 0 and no earlier event is EndOfTrack.
C9_TracksEndWithEndOfTrack ==
    Returned =>
        /\ Len(tracks) = 4
        /\ \A k \in 1..4 :
              LET p == ParseTrack(tracks[k])
                  n == Len(p.events)
              IN  /\ p.ok
                  /\ n >= 1
                  /\ p.events[n].bytes = EotBytes
                  /\ p.events[n].delta = 0
                  /\ \A j \in 1..(n - 1) :
                        /\ p.events[j].bytes # EotBytes
                        /\ p.events[j].bytes[1] # 255 =>
                              \A b \in 2..Len(p.events[j].bytes) :
                                  p.events[j].bytes[b] < 128

\* a stereo run with a note on each channel
C9_Witness ==
    /\ Returned
    /\ Len(src) = 2
    /\ Len(src[1]) = ProgressCells
    /\ src[1][1] = -1000
    /\ src[2][Len(src[2])] = 33286
    /\ Len(tracks[2]) > 12
    /\ Len(tracks[3]) > 12

RECURSIVE ExpectedNotes(_, _, _)
\* the note events lane u must carry for the samples buf[p..], with their
\* absolute times: sample position i (0-based) sounds from i to i + 1
ExpectedNotes(buf, u, p) ==
    IF p > Len(buf) THEN <<>>
    ELSE LET vel == amp2vel(buf[p], FALSE)[1]
             lane == IF buf[p] >= 0 THEN u % 2 = 0 ELSE u % 2 = 1
         IN  (IF vel # 0 /\ lane
              THEN <<[time |-> p - 1, bytes |-> <<144 + u, 60, vel % 128>>],
                     [time |-> p, bytes |-> <<128 + u, 60, vel % 128>>]>>
              ELSE <<>>) \o ExpectedNotes(buf, u, p + 1)

\* C10: once gen_midi_from_pcm has returned, the note events of lane u are,
\* in order, a NoteOn at absolute time i directly followed by its NoteOff one
\* tick later with the same channel, note and velocity, for exactly the
\* samples i of channel u div 2 with non-zero velocity and the sign of the
\* lane (lanes 0-1 from channel 0, lanes 2-3 from channel 1).
C10_CumulativeDeltaTimes ==
    Returned =>
        \A u \in 0..3 :
            LET evs == ParseTrack(tracks[u + 1]).events
                notes == SelectEvents(evs, IsNote)
                want == IF (u \div 2) + 1 <= Len(src)
                        THEN ExpectedNotes(src[(u \div 2) + 1], u, 1)
                        ELSE <<>>
            IN  /\ Len(notes) = Len(want)
                /\ \A k \in 1..Len(want) :
                      /\ notes[k].time = want[k].time
                      /\ notes[k].bytes = want[k].bytes
                /\ \A k \in 1..Len(evs) :
                      IsNoteOn(evs[k]) =>
                          /\ k < Len(evs)
                          /\ evs[k + 1].delta = 1
                          /\ evs[k + 1].bytes[1] = evs[k].bytes[1] - 16

\* two samples in a row on lane 0, then one after a silence
C10_Witness ==
    /\ Returned
    /\ Len(src) = 1
    /\ Len(src[1]) = ProgressCells
    /\ src[1][1] = 1000
    /\ src[1][2] = 33286
    /\ tracks[1] = <<0, 255, 81, 3, 0, 39, 16, 0, 192, 0, 0, 176, 10, 1,
                     0, 144, 60, 22, 1, 128, 60, 22,
                     0, 144, 60, 0, 1, 128, 60, 0, 0, 255, 47, 0>>

===========================================================================
